---- MODULE Spec2Model ----
(***************************************************************************)
(* Model of the text-grid drawing engine of canvas.py: the Canvas with its *)
(* cell array and snapshot stack, and the Point / Line / Rectangle         *)
(* geometry it draws.  A Point is the pair <<x, y>>, a Line the pair       *)
(* <<from_point, to_point>>, a Rectangle the pair                          *)
(* <<top_left_point, bottom_right_point>>, a cell the pair                 *)
(* <<content type, colour>>.  Python lists are modelled as functions on    *)
(* 0..n-1 (the cell array) or as sequences (the snapshot stack, the point  *)
(* lists); deepcopy is a copy of the value.                                *)
(***************************************************************************)
EXTENDS Integers, Sequences, FiniteSets, TLC

\* ---- bounds of the model ------------------------------------------------
MaxWidth == 2
MaxHeight == 2
MaxCalls == 3
MaxCoord == 3
FillWidth == 3
FillHeight == 2
FillDraws == 1

Colours == {"o"}

\* ---- state ----------------------------------------------------------------
VARIABLES width, height, cells, previous_states, call, prev_call, before, before2, ncalls, hist, undone, all_ok, geom, fill

vars == <<width, height, cells, previous_states, call, prev_call, before, before2, ncalls, hist, undone, all_ok, geom, fill>>

\* ---- CanvasCellContentType and the cells --------------------------------
Empty == "Empty"

LineType == "Line"

EmptyCell == <<Empty, " ">>

LineCell == <<LineType, "x">>

\* Canvas.__init__: `height` rows of `width` cells each
NewCells(w, h) == [j \in 0..(h - 1) |-> [i \in 0..(w - 1) |-> EmptyCell]]

\* ---- Python list indexing -----------------------------------------------
ListLen(l) == Cardinality(DOMAIN l)

\* l[i] exists iff -len <= i < len; a negative i counts from the end
IndexOK(l, i) == i >= 0 - ListLen(l) /\ i < ListLen(l)

NormIndex(l, i) == IF i < 0 THEN i + ListLen(l) ELSE i

\* self.cells[x][y] can be evaluated without IndexError
CellExists(c, x, y) == IndexOK(c, x) /\ IndexOK(c[NormIndex(c, x)], y)

GetCell(c, x, y) == c[NormIndex(c, x)][NormIndex(c[NormIndex(c, x)], y)]

SetCell(c, x, y, v) == [c EXCEPT ![NormIndex(c, x)][NormIndex(c[NormIndex(c, x)], y)] = v]

\* ---- Canvas._point_is_out_of_bound ---------------------------------------
\* variant: the upper limits compared with > instead of >=
point_is_out_of_bound_inclusive(point) ==
    LET x_is_out_of_canvas_bound == point[1] < 0 \/ point[1] > width
        y_is_out_of_canvas_bound == point[2] < 0 \/ point[2] > height
    IN x_is_out_of_canvas_bound \/ y_is_out_of_canvas_bound

_point_is_out_of_bound(point) ==
    LET x_is_out_of_canvas_bound == point[1] < 0 \/ point[1] >= width
        y_is_out_of_canvas_bound == point[2] < 0 \/ point[2] >= height
    IN x_is_out_of_canvas_bound \/ y_is_out_of_canvas_bound

\* ---- Point -----------------------------------------------------------------
\* int() of the number h/2: a whole number is kept, a fraction is truncated
\* towards zero
PyInt(h) == IF h >= 0 THEN h \div 2 ELSE 0 - ((0 - h) \div 2)

\* Point.__init__ on the numbers xh/2 and yh/2: both coerced with int(),
\* nothing else tested
Point(xh, yh) == [err |-> "ok", point |-> <<PyInt(xh), PyInt(yh)>>]

\* ---- Line ------------------------------------------------------------------
\* range(a, b): a, a+1, ..., b-1 (empty when b <= a)
PyRange(a, b) == [i \in 1..(IF b > a THEN b - a ELSE 0) |-> a + i - 1]

_is_horizontal(line) == line[1][1] = line[2][1]

_is_vertical(line) == line[1][2] = line[2][2]

\* variant: range(from, to) without the + 1, the far endpoint left out
get_points_exclusive(line) ==
    IF _is_horizontal(line)
    THEN [err |-> "ok",
          pts |-> [i \in DOMAIN PyRange(line[1][2], line[2][2]) |->
                      <<line[1][1], PyRange(line[1][2], line[2][2])[i]>>]]
    ELSE IF _is_vertical(line)
    THEN [err |-> "ok",
          pts |-> [i \in DOMAIN PyRange(line[1][1], line[2][1]) |->
                      <<PyRange(line[1][1], line[2][1])[i], line[1][2]>>]]
    ELSE [err |-> "NotImplementedError", pts |-> <<>>]

\* variant: the endpoints are put in ascending order before the expansion
get_points_normalised(line) ==
    LET lo(a, b) == IF a < b THEN a ELSE b
        hi(a, b) == IF a < b THEN b ELSE a
    IN IF _is_horizontal(line)
       THEN [err |-> "ok",
             pts |-> [i \in DOMAIN PyRange(lo(line[1][2], line[2][2]), hi(line[1][2], line[2][2]) + 1) |->
                         <<line[1][1], PyRange(lo(line[1][2], line[2][2]), hi(line[1][2], line[2][2]) + 1)[i]>>]]
       ELSE IF _is_vertical(line)
       THEN [err |-> "ok",
             pts |-> [i \in DOMAIN PyRange(lo(line[1][1], line[2][1]), hi(line[1][1], line[2][1]) + 1) |->
                         <<PyRange(lo(line[1][1], line[2][1]), hi(line[1][1], line[2][1]) + 1)[i], line[1][2]>>]]
       ELSE [err |-> "NotImplementedError", pts |-> <<>>]

\* Line.get_points: the point list, or the NotImplementedError
get_points(line) ==
    IF _is_horizontal(line)
    THEN [err |-> "ok",
          pts |-> [i \in DOMAIN PyRange(line[1][2], line[2][2] + 1) |->
                      <<line[1][1], PyRange(line[1][2], line[2][2] + 1)[i]>>]]
    ELSE IF _is_vertical(line)
    THEN [err |-> "ok",
          pts |-> [i \in DOMAIN PyRange(line[1][1], line[2][1] + 1) |->
                      <<PyRange(line[1][1], line[2][1] + 1)[i], line[1][2]>>]]
    ELSE [err |-> "NotImplementedError", pts |-> <<>>]

\* ---- Rectangle -------------------------------------------------------------
\* variant: the two middle lines returned in the other order
get_lines_reordered(rectangle) ==
    LET top_left_point == rectangle[1]
        bottom_right_point == rectangle[2]
        top_right_point == <<bottom_right_point[1], top_left_point[2]>>
        bottom_left_point == <<top_left_point[1], bottom_right_point[2]>>
    IN << <<top_left_point, top_right_point>>,
          <<top_right_point, bottom_right_point>>,
          <<top_left_point, bottom_left_point>>,
          <<bottom_left_point, bottom_right_point>> >>

\* variant: the derived corners built with x and y exchanged
get_lines_exchanged(rectangle) ==
    LET top_left_point == rectangle[1]
        bottom_right_point == rectangle[2]
        top_right_point == <<top_left_point[2], bottom_right_point[1]>>
        bottom_left_point == <<bottom_right_point[2], top_left_point[1]>>
    IN << <<top_left_point, top_right_point>>,
          <<top_left_point, bottom_left_point>>,
          <<top_right_point, bottom_right_point>>,
          <<bottom_left_point, bottom_right_point>> >>

get_lines(rectangle) ==
    LET top_left_point == rectangle[1]
        bottom_right_point == rectangle[2]
        top_right_point == <<bottom_right_point[1], top_left_point[2]>>
        bottom_left_point == <<top_left_point[1], bottom_right_point[2]>>
    IN << <<top_left_point, top_right_point>>,
          <<top_left_point, bottom_left_point>>,
          <<top_right_point, bottom_right_point>>,
          <<bottom_left_point, bottom_right_point>> >>

\* ---- Canvas drawing --------------------------------------------------------
\* the loop of _draw_line: _draw_point on each point in order, stopping at
\* the first point whose cell does not exist
RECURSIVE draw_points(_, _)
draw_points(c, pts) ==
    IF pts = <<>> THEN [cells |-> c, err |-> "ok"]
    ELSE IF ~CellExists(c, Head(pts)[1], Head(pts)[2])
         THEN [cells |-> c, err |-> "IndexError"]
         ELSE draw_points(SetCell(c, Head(pts)[1], Head(pts)[2], LineCell), Tail(pts))

_draw_line(c, line) ==
    IF get_points(line).err # "ok"
    THEN [cells |-> c, err |-> get_points(line).err]
    ELSE draw_points(c, get_points(line).pts)

\* the loop of draw_rectangle over get_lines()
RECURSIVE draw_lines(_, _)
draw_lines(c, lines) ==
    IF lines = <<>> THEN [cells |-> c, err |-> "ok"]
    ELSE LET r == _draw_line(c, Head(lines))
         IN IF r.err # "ok" THEN r ELSE draw_lines(r.cells, Tail(lines))

\* ---- Canvas._bucket_fill ---------------------------------------------------
can_process_cell(cell, processed, to_process) ==
    /\ cell \notin processed
    /\ \A i \in DOMAIN to_process : to_process[i] # cell
    /\ ~_point_is_out_of_bound(cell)

\* to_process.insert(0, neighbour) when the neighbour can be processed
enqueue(neighbour, processed, to_process) ==
    IF can_process_cell(neighbour, processed, to_process)
    THEN <<neighbour>> \o to_process
    ELSE to_process

\* variant: the diagonal neighbours are enqueued as well
enqueue_neighbours_diagonal(p, processed, to_process) ==
    LET t1 == enqueue(<<p[1] - 1, p[2]>>, processed, to_process)
        t2 == enqueue(<<p[1] + 1, p[2]>>, processed, t1)
        t3 == enqueue(<<p[1], p[2] - 1>>, processed, t2)
        t4 == enqueue(<<p[1], p[2] + 1>>, processed, t3)
        t5 == enqueue(<<p[1] - 1, p[2] - 1>>, processed, t4)
        t6 == enqueue(<<p[1] + 1, p[2] - 1>>, processed, t5)
        t7 == enqueue(<<p[1] - 1, p[2] + 1>>, processed, t6)
    IN enqueue(<<p[1] + 1, p[2] + 1>>, processed, t7)

\* left, right, top, bottom neighbour, enqueued in that order
enqueue_neighbours(p, processed, to_process) ==
    LET t1 == enqueue(<<p[1] - 1, p[2]>>, processed, to_process)
        t2 == enqueue(<<p[1] + 1, p[2]>>, processed, t1)
        t3 == enqueue(<<p[1], p[2] - 1>>, processed, t2)
    IN enqueue(<<p[1], p[2] + 1>>, processed, t3)

\* variant: the content type is reset whatever reset_content_type says
painted_cell_reset(content_type_to_fill, colour, reset_content_type) == <<Empty, colour>>

\* the cell written on an absorbed point
painted_cell(content_type_to_fill, colour, reset_content_type) ==
    IF reset_content_type THEN <<Empty, colour>> ELSE <<content_type_to_fill, colour>>

\* the while loop: pop() takes the last element of to_process
RECURSIVE fill_loop(_, _, _, _, _, _)
fill_loop(c, processed, to_process, content_type_to_fill, colour, reset_content_type) ==
    IF to_process = <<>> THEN [cells |-> c, err |-> "ok"]
    ELSE LET current_point == to_process[Len(to_process)]
             rest == SubSeq(to_process, 1, Len(to_process) - 1)
             done == processed \cup {current_point}
         IN IF ~CellExists(c, current_point[1], current_point[2])
            THEN [cells |-> c, err |-> "IndexError"]
            ELSE IF GetCell(c, current_point[1], current_point[2])[1] = content_type_to_fill
                 THEN fill_loop(SetCell(c, current_point[1], current_point[2],
                                        painted_cell(content_type_to_fill, colour, reset_content_type)),
                                done, enqueue_neighbours(current_point, done, rest),
                                content_type_to_fill, colour, reset_content_type)
                 ELSE fill_loop(c, done, rest, content_type_to_fill, colour, reset_content_type)

_bucket_fill(c, point, colour, reset_content_type) ==
    IF ~CellExists(c, point[1], point[2])
    THEN [cells |-> c, err |-> "IndexError"]
    ELSE fill_loop(c, {}, <<point>>, GetCell(c, point[1], point[2])[1], colour, reset_content_type)

\* ---- snapshots -------------------------------------------------------------
\* variant: nothing is pushed
save_state_nothing(states, c) == states

\* Canvas._save_state: append a deep copy of the cell array
_save_state(states, c) == Append(states, c)

\* variant: pop(0), the oldest snapshot
undo_oldest(states, c) ==
    IF states # <<>>
    THEN [cells |-> states[1], states |-> SubSeq(states, 2, Len(states)), err |-> "ok"]
    ELSE [cells |-> c, states |-> states, err |-> "ok"]

\* variant: pop() without the emptiness test, which raises on an empty list
undo_unguarded(states, c) ==
    IF states # <<>>
    THEN [cells |-> states[Len(states)], states |-> SubSeq(states, 1, Len(states) - 1), err |-> "ok"]
    ELSE [cells |-> c, states |-> states, err |-> "IndexError"]

\* Canvas.undo: pop the most recent snapshot when there is one
undo_result(states, c) ==
    IF states # <<>>
    THEN [cells |-> states[Len(states)], states |-> SubSeq(states, 1, Len(states) - 1), err |-> "ok"]
    ELSE [cells |-> c, states |-> states, err |-> "ok"]

\* ---- inputs ----------------------------------------------------------------
\* coordinates one step beyond the grid on either side
Points == {<<x, y>> : x \in (0 - 1)..width, y \in (0 - 1)..height}

Mutating == {"draw_line", "draw_rectangle", "bucket_fill", "delete"}

InGrid(p) == p[1] \in 0..(width - 1) /\ p[2] \in 0..(height - 1)

NoCall == [op |-> "none", a |-> <<0, 0>>, b |-> <<0, 0>>, colour |-> " ", result |-> "ok", outside |-> FALSE]

NoGeom == [op |-> "none", a |-> <<0, 0>>, b |-> <<0, 0>>, err |-> "ok", point |-> <<0, 0>>, pts |-> <<>>, lines |-> <<>>]

NoFill == [pc |-> "idle", point |-> <<0, 0>>, colour |-> " ", reset_content_type |-> FALSE,
           content_type_to_fill |-> Empty, processed |-> {}, to_process |-> <<>>,
           enqueued |-> <<>>, painted |-> {}]

Snapshot == [cells |-> cells, states |-> previous_states]

\* ---- the calls -------------------------------------------------------------
Init ==
    /\ width \in 1..MaxWidth
    /\ height \in 1..MaxHeight
    /\ cells = NewCells(width, height)
    /\ previous_states = <<>>
    /\ call = NoCall
    /\ prev_call = [op |-> "none", result |-> "ok"]
    /\ before = [cells |-> cells, states |-> <<>>]
    /\ before2 = before
    /\ ncalls = 0
    /\ hist = <<cells>>
    /\ undone = 0
    /\ all_ok = TRUE
    /\ geom = NoGeom
    /\ fill = NoFill

\* bookkeeping shared by the calls: the call made (the arguments of a call
\* with a checked point outside the grid are recorded only as `outside`),
\* the state it started from, and the state the call before it started from
Record(op, a, b, colour, result) ==
    /\ call' = IF InGrid(a) /\ InGrid(b)
               THEN [op |-> op, a |-> a, b |-> b, colour |-> colour, result |-> result, outside |-> FALSE]
               ELSE [op |-> op, a |-> <<0, 0>>, b |-> <<0, 0>>, colour |-> colour, result |-> result, outside |-> TRUE]
    /\ prev_call' = [op |-> call.op, result |-> call.result]
    /\ before' = Snapshot
    /\ before2' = before
    /\ UNCHANGED <<width, height, geom, fill>>

\* a mutating call: rejected before anything changes, or snapshot then mutate.
\* hist holds the cell arrays S0, S1, ..., Sn left by the mutating calls since
\* construction (a call made after k undos continues from S(n-k)), undone is
\* the number k of undos since, all_ok tells that no mutating call has failed
Mutate(op, a, b, colour, rejected, r) ==
    /\ ncalls < MaxCalls
    /\ ncalls' = ncalls + 1
    /\ IF rejected
       THEN /\ UNCHANGED <<cells, previous_states, hist, undone>>
            /\ all_ok' = FALSE
            /\ Record(op, a, b, colour, "OutOfCanvasBoundError")
       ELSE /\ previous_states' = _save_state(previous_states, cells)
            /\ cells' = r.cells
            /\ hist' = Append(SubSeq(hist, 1, Len(hist) - undone), r.cells)
            /\ undone' = 0
            /\ all_ok' = (all_ok /\ r.err = "ok")
            /\ Record(op, a, b, colour, r.err)

draw_line ==
    \E a \in Points, b \in Points :
        Mutate("draw_line", a, b, " ",
               _point_is_out_of_bound(a) \/ _point_is_out_of_bound(b),
               _draw_line(cells, <<a, b>>))

\* variant: a snapshot is pushed before each of the four lines, as when the
\* loop calls draw_line instead of _draw_line
draw_rectangle_snapshot_per_line ==
    \E a \in Points, b \in Points :
        LET lines == get_lines(<<a, b>>)
            r1 == _draw_line(cells, lines[1])
            r2 == IF r1.err = "ok" THEN _draw_line(r1.cells, lines[2]) ELSE r1
            r3 == IF r2.err = "ok" THEN _draw_line(r2.cells, lines[3]) ELSE r2
            r4 == IF r3.err = "ok" THEN _draw_line(r3.cells, lines[4]) ELSE r3
            s1 == _save_state(previous_states, cells)
            s2 == IF r1.err = "ok" THEN _save_state(s1, r1.cells) ELSE s1
            s3 == IF r2.err = "ok" THEN _save_state(s2, r2.cells) ELSE s2
            s4 == IF r3.err = "ok" THEN _save_state(s3, r3.cells) ELSE s3
        IN /\ ncalls < MaxCalls
           /\ ncalls' = ncalls + 1
           /\ IF _point_is_out_of_bound(a) \/ _point_is_out_of_bound(b)
              THEN /\ UNCHANGED <<cells, previous_states, hist, undone>>
                   /\ all_ok' = FALSE
                   /\ Record("draw_rectangle", a, b, " ", "OutOfCanvasBoundError")
              ELSE /\ previous_states' = s4
                   /\ cells' = r4.cells
                   /\ hist' = Append(SubSeq(hist, 1, Len(hist) - undone), r4.cells)
                   /\ undone' = 0
                   /\ all_ok' = (all_ok /\ r4.err = "ok")
                   /\ Record("draw_rectangle", a, b, " ", r4.err)

draw_rectangle ==
    \E a \in Points, b \in Points :
        Mutate("draw_rectangle", a, b, " ",
               _point_is_out_of_bound(a) \/ _point_is_out_of_bound(b),
               draw_lines(cells, get_lines(<<a, b>>)))

bucket_fill ==
    \E p \in Points, colour \in Colours :
        Mutate("bucket_fill", p, p, colour, _point_is_out_of_bound(p),
               _bucket_fill(cells, p, colour, FALSE))

delete ==
    \E p \in Points :
        Mutate("delete", p, p, " ", _point_is_out_of_bound(p),
               _bucket_fill(cells, p, " ", TRUE))

undo ==
    LET r == undo_result(previous_states, cells)
    IN /\ cells' = r.cells
       /\ previous_states' = r.states
       /\ undone' = IF undone < Len(hist) - 1 THEN undone + 1 ELSE undone
       /\ UNCHANGED hist
       /\ Record("undo", <<0, 0>>, <<0, 0>>, " ", r.err)
       /\ UNCHANGED <<ncalls, all_ok>>

Next == draw_line \/ draw_rectangle \/ bucket_fill \/ delete \/ undo

Spec == Init /\ [][Next]_vars

\* ---- the geometry on its own ----------------------------------------------
\* each behaviour makes one geometry call, on points with coordinates of
\* either sign given in ascending, descending or diagonal order
Coords == (0 - 1)..MaxCoord

AnyPoints == {<<x, y>> : x \in Coords, y \in Coords}

\* the numbers -1, -1/2, 0, 1/2, ..., MaxCoord, counted in halves
Halves == (0 - 2)..(2 * MaxCoord)

new_point ==
    /\ geom.op = "none"
    /\ \E xh \in Halves, yh \in Halves :
           geom' = [op |-> "Point", a |-> <<xh, yh>>, b |-> <<0, 0>>,
                    err |-> Point(xh, yh).err, point |-> Point(xh, yh).point,
                    pts |-> <<>>, lines |-> <<>>]
    /\ UNCHANGED <<width, height, cells, previous_states, call, prev_call, before, before2, ncalls, hist, undone, all_ok, fill>>

line_get_points ==
    /\ geom.op = "none"
    /\ \E a \in AnyPoints, b \in AnyPoints :
           geom' = [op |-> "get_points", a |-> a, b |-> b,
                    err |-> get_points(<<a, b>>).err, point |-> <<0, 0>>,
                    pts |-> get_points(<<a, b>>).pts, lines |-> <<>>]
    /\ UNCHANGED <<width, height, cells, previous_states, call, prev_call, before, before2, ncalls, hist, undone, all_ok, fill>>

rectangle_get_lines ==
    /\ geom.op = "none"
    /\ \E a \in AnyPoints, b \in AnyPoints :
           geom' = [op |-> "get_lines", a |-> a, b |-> b,
                    err |-> "ok", point |-> <<0, 0>>,
                    pts |-> <<>>, lines |-> get_lines(<<a, b>>)]
    /\ UNCHANGED <<width, height, cells, previous_states, call, prev_call, before, before2, ncalls, hist, undone, all_ok, fill>>

GeomNext == new_point \/ line_get_points \/ rectangle_get_lines

GeomSpec == Init /\ [][GeomNext]_vars

\* ---- the flood fill, one loop iteration at a time ---------------------------
\* a fresh grid, possibly non-square, takes up to FillDraws lines and then one
\* bucket_fill or delete whose while loop runs one iteration per step;
\* fill.enqueued lists every point ever placed on to_process, fill.painted
\* the points written
FillInit ==
    /\ width \in 1..FillWidth
    /\ height \in 1..FillHeight
    /\ cells = NewCells(width, height)
    /\ previous_states = <<>>
    /\ call = NoCall
    /\ prev_call = [op |-> "none", result |-> "ok"]
    /\ before = [cells |-> cells, states |-> <<>>]
    /\ before2 = before
    /\ ncalls = 0
    /\ hist = <<cells>>
    /\ undone = 0
    /\ all_ok = TRUE
    /\ geom = NoGeom
    /\ fill = NoFill

\* draw_line with both endpoints in bounds
fill_draw_line ==
    /\ fill.pc = "idle"
    /\ ncalls < FillDraws
    /\ \E a \in Points, b \in Points :
           /\ ~(_point_is_out_of_bound(a) \/ _point_is_out_of_bound(b))
           /\ previous_states' = _save_state(previous_states, cells)
           /\ cells' = _draw_line(cells, <<a, b>>).cells
    /\ ncalls' = ncalls + 1
    /\ UNCHANGED <<width, height, call, prev_call, before, before2, hist, undone, all_ok, geom, fill>>

\* bucket_fill / delete up to the first test of the while loop: bounds check,
\* snapshot, read of the start cell, processed and to_process set up
fill_begin ==
    /\ fill.pc = "idle"
    /\ \E p \in Points, reset_content_type \in BOOLEAN :
         \E colour \in (IF reset_content_type THEN {" "} ELSE Colours) :
           /\ ~_point_is_out_of_bound(p)
           /\ fill' = IF ~CellExists(cells, p[1], p[2])
                      THEN [NoFill EXCEPT !.pc = "raised", !.point = p, !.colour = colour,
                                          !.reset_content_type = reset_content_type]
                      ELSE [pc |-> "loop", point |-> p, colour |-> colour,
                            reset_content_type |-> reset_content_type,
                            content_type_to_fill |-> GetCell(cells, p[1], p[2])[1],
                            processed |-> {}, to_process |-> <<p>>,
                            enqueued |-> <<p>>, painted |-> {}]
    /\ previous_states' = _save_state(previous_states, cells)
    /\ before' = Snapshot
    /\ UNCHANGED <<width, height, cells, call, prev_call, before2, ncalls, hist, undone, all_ok, geom>>

\* one iteration of the while loop
fill_iterate ==
    /\ fill.pc = "loop"
    /\ fill.to_process # <<>>
    /\ LET current_point == fill.to_process[Len(fill.to_process)]
           rest == SubSeq(fill.to_process, 1, Len(fill.to_process) - 1)
           done == fill.processed \cup {current_point}
           more == enqueue_neighbours(current_point, done, rest)
       IN IF ~CellExists(cells, current_point[1], current_point[2])
          THEN /\ fill' = [fill EXCEPT !.pc = "raised", !.to_process = rest, !.processed = done]
               /\ UNCHANGED cells
          ELSE IF GetCell(cells, current_point[1], current_point[2])[1] = fill.content_type_to_fill
               THEN /\ cells' = SetCell(cells, current_point[1], current_point[2],
                                        painted_cell(fill.content_type_to_fill, fill.colour,
                                                     fill.reset_content_type))
                    /\ fill' = [fill EXCEPT !.to_process = more, !.processed = done,
                                            !.enqueued = @ \o SubSeq(more, 1, Len(more) - Len(rest)),
                                            !.painted = @ \cup {current_point}]
               ELSE /\ fill' = [fill EXCEPT !.to_process = rest, !.processed = done]
                    /\ UNCHANGED cells
    /\ UNCHANGED <<width, height, previous_states, call, prev_call, before, before2, ncalls, hist, undone, all_ok, geom>>

\* the while test finds to_process empty and the call returns
fill_return ==
    /\ fill.pc = "loop"
    /\ fill.to_process = <<>>
    /\ fill' = [fill EXCEPT !.pc = "done"]
    /\ UNCHANGED <<width, height, cells, previous_states, call, prev_call, before, before2, ncalls, hist, undone, all_ok, geom>>

FillNext == fill_draw_line \/ fill_begin \/ fill_iterate \/ fill_return

FillSpec == FillInit /\ [][FillNext]_vars

\* ---- properties ------------------------------------------------------------
\* the points of [0,width) x [0,height)
GridPoints == {<<x, y>> : x \in 0..(width - 1), y \in 0..(height - 1)}

\* C1: a draw_line, draw_rectangle, bucket_fill or delete with a checked point
\* outside [0,width) x [0,height) fails with the out-of-bounds error and
\* leaves the cell array and the snapshot stack as they were before the call
C1_OutOfBoundsRejected ==
    (call.op \in Mutating /\ call.outside) =>
        /\ call.result = "OutOfCanvasBoundError"
        /\ cells = before.cells
        /\ previous_states = before.states

\* a rejected delete on a grid that already holds a drawing and a snapshot
C1_Witness ==
    /\ call.op = "delete"
    /\ call.outside
    /\ call.result = "OutOfCanvasBoundError"
    /\ previous_states # <<>>
    /\ cells # NewCells(width, height)

\* C2: a successful mutating call followed immediately by undo() leaves the
\* cell array and the snapshot stack as they were before the mutating call
C2_UndoRestores ==
    (call.op = "undo" /\ prev_call.op \in Mutating /\ prev_call.result = "ok") =>
        /\ cells = before2.cells
        /\ previous_states = before2.states

\* undo right after a successful call that changed cells, on a non-empty history
C2_Witness ==
    /\ call.op = "undo"
    /\ prev_call.op \in Mutating
    /\ prev_call.result = "ok"
    /\ before.cells # before2.cells
    /\ before2.states # <<>>

\* C3: no draw_line, draw_rectangle, bucket_fill or delete changes some cells
\* and then fails: a call that fails leaves the cell array unchanged
C3_NoPartialMutation ==
    (call.op \in Mutating /\ call.result # "ok") => cells = before.cells

\* C4: the freshly constructed grid holds the cell (Empty, ' ') at index
\* [x][y] for every x in [0,width) and every y in [0,height)
C4_FreshGridCells ==
    (ncalls = 0) =>
        \A p \in GridPoints :
            CellExists(cells, p[1], p[2]) /\ GetCell(cells, p[1], p[2]) = EmptyCell

\* C5: after draw_line of an axis-aligned line with both endpoints in bounds,
\* every cell on line.get_points() equals (Line, 'x') and every other cell is
\* unchanged from before the call
C5_DrawLineEffect ==
    (/\ call.op = "draw_line"
     /\ ~call.outside
     /\ (call.a[1] = call.b[1] \/ call.a[2] = call.b[2])) =>
        LET pts == get_points(<<call.a, call.b>>).pts
            on == {pts[i] : i \in DOMAIN pts}
        IN /\ \A p \in on : CellExists(cells, p[1], p[2]) /\ GetCell(cells, p[1], p[2]) = LineCell
           /\ \A x \in DOMAIN cells : \A y \in DOMAIN cells[x] :
                  <<x, y>> \notin on => cells[x][y] = before.cells[x][y]

\* the 4-neighbours of a point
Neighbours(p) == {<<p[1] - 1, p[2]>>, <<p[1] + 1, p[2]>>, <<p[1], p[2] - 1>>, <<p[1], p[2] + 1>>}

\* the in-bounds points holding a cell of content type t in the cell array c
SameType(c, t) == {q \in GridPoints : CellExists(c, q[1], q[2]) /\ GetCell(c, q[1], q[2])[1] = t}

RECURSIVE Grow(_, _)
Grow(reached, allowed) ==
    LET more == {q \in allowed \ reached : Neighbours(q) \cap reached # {}}
    IN IF more = {} THEN reached ELSE Grow(reached \cup more, allowed)

\* the maximal 4-connected region of c containing p, of the cells sharing
\* the content type of p's cell
Region(c, p) ==
    IF p \in GridPoints /\ CellExists(c, p[1], p[2])
    THEN Grow({p}, SameType(c, GetCell(c, p[1], p[2])[1]))
    ELSE {}

\* the indices of the cells of c, as points
CellPoints(c) == UNION {{<<x, y>> : y \in DOMAIN c[x]} : x \in DOMAIN c}

\* the points whose cell differs between the cell arrays c and d
Changed(c, d) == {q \in CellPoints(c) : c[q[1]][q[2]] # d[q[1]][q[2]]}

\* C6: bucket_fill(p, c) with p in bounds changes only cells joined to p by a
\* 4-connected path of cells whose content type before the call is that of p
C6_FillStaysInRegion ==
    (call.op = "bucket_fill" /\ ~call.outside) =>
        Changed(before.cells, cells) \subseteq Region(before.cells, call.a)

\* a fill that painted cells while a cell of the same content type, cut off
\* from the start point by cells of the other type, kept its colour
C6_Witness ==
    /\ call.op = "bucket_fill"
    /\ ~call.outside
    /\ call.result = "ok"
    /\ Changed(before.cells, cells) # {}
    /\ \E q \in SameType(before.cells, GetCell(before.cells, call.a[1], call.a[2])[1]) :
           q \notin Region(before.cells, call.a)

\* C7: after bucket_fill(p, c) with p in bounds, every cell of the maximal
\* 4-connected region of p has colour c and its content type of before the
\* call, and no cell of the grid has changed its content type
C7_FillPaintsRegion ==
    (call.op = "bucket_fill" /\ ~call.outside) =>
        /\ call.result = "ok"
        /\ call.a \in Region(before.cells, call.a)
        /\ \A q \in Region(before.cells, call.a) :
               GetCell(cells, q[1], q[2]) = <<GetCell(before.cells, q[1], q[2])[1], call.colour>>
        /\ \A q \in CellPoints(cells) : cells[q[1]][q[2]][1] = before.cells[q[1]][q[2]][1]

\* C8: after delete(p) with p in bounds, every cell of the maximal 4-connected
\* region of p equals (Empty, ' ') and every cell outside it is unchanged
C8_DeleteClearsRegion ==
    (call.op = "delete" /\ ~call.outside) =>
        /\ call.result = "ok"
        /\ call.a \in Region(before.cells, call.a)
        /\ \A q \in Region(before.cells, call.a) : GetCell(cells, q[1], q[2]) = EmptyCell
        /\ Changed(before.cells, cells) \subseteq Region(before.cells, call.a)

\* C9: after n successful mutating calls from a fresh grid leaving the cell
\* arrays S0, S1, ..., Sn and then k <= n undos, the cell array is S(n-k) and
\* the stack still holds S0 .. S(n-k-1) as they were pushed
C9_UndoIsLifo ==
    all_ok =>
        /\ cells = hist[Len(hist) - undone]
        /\ previous_states = SubSeq(hist, 1, Len(hist) - undone - 1)

\* two undos after two successful calls that left three different cell arrays
C9_Witness ==
    /\ all_ok
    /\ call.op = "undo"
    /\ Len(hist) = 3
    /\ undone = 2
    /\ hist[1] # hist[2] /\ hist[2] # hist[3] /\ hist[1] # hist[3]

\* C10: undo() on an empty snapshot stack raises no error and leaves the cell
\* array and the empty stack unchanged
C10_UndoOnEmptyIsNoOp ==
    (call.op = "undo" /\ before.states = <<>>) =>
        /\ call.result = "ok"
        /\ cells = before.cells
        /\ previous_states = <<>>

\* an undo on a stack that held a snapshot and was emptied by the undo before
C10_Witness ==
    /\ call.op = "undo"
    /\ prev_call.op = "undo"
    /\ before.states = <<>>
    /\ Len(hist) > 1
    /\ undone = Len(hist) - 1

\* C11: a successful draw_rectangle pushes exactly one snapshot, the cell
\* array of before the call, and a single undo() right after it restores the
\* cell array and the stack of before the whole rectangle
C11_RectangleOneSnapshot ==
    /\ (call.op = "draw_rectangle" /\ call.result = "ok") =>
           previous_states = Append(before.states, before.cells)
    /\ (call.op = "undo" /\ prev_call.op = "draw_rectangle" /\ prev_call.result = "ok") =>
           /\ cells = before2.cells
           /\ previous_states = before2.states
           /\ Len(before.states) = Len(before2.states) + 1

\* undo right after a rectangle that drew its four cells on an untouched grid
C11_Witness ==
    /\ call.op = "undo"
    /\ prev_call.op = "draw_rectangle"
    /\ prev_call.result = "ok"
    /\ Cardinality(Changed(before2.cells, before.cells)) = 4
    /\ cells = before2.cells

\* C15: a mutating call that fails, for whatever reason, leaves the snapshot
\* stack as it was before the call; in particular a draw_line of an in-bounds
\* diagonal line pushes no snapshot
C15_FailedCallKeepsStack ==
    (call.op \in Mutating /\ call.result # "ok") => previous_states = before.states

\* the from coordinate strictly greater than the to coordinate along the
\* varying axis of an axis-aligned line
Descending(a, b) == (a[1] = b[1] /\ a[2] > b[2]) \/ (a[2] = b[2] /\ a[1] > b[1])

\* C16: for an in-bounds axis-aligned line given in descending order,
\* get_points() is empty and draw_line succeeds, changes no cell and pushes
\* one snapshot
C16_DescendingLineDrawsNothing ==
    (call.op = "draw_line" /\ ~call.outside /\ Descending(call.a, call.b)) =>
        /\ get_points(<<call.a, call.b>>) = [err |-> "ok", pts |-> <<>>]
        /\ call.result = "ok"
        /\ cells = before.cells
        /\ previous_states = Append(before.states, before.cells)

\* a descending line drawn over a grid that holds a drawing
C16_Witness ==
    /\ call.op = "draw_line"
    /\ ~call.outside
    /\ Descending(call.a, call.b)
    /\ before.cells # NewCells(width, height)
    /\ Len(previous_states) = 2

\* the points draw_rectangle addresses for the rectangle <<a, b>>: the
\* endpoints of its four lines and the points of their expansions
RectanglePoints(a, b) ==
    UNION {{get_lines(<<a, b>>)[i][1], get_lines(<<a, b>>)[i][2]} \cup
           {get_points(get_lines(<<a, b>>)[i]).pts[j] :
               j \in DOMAIN get_points(get_lines(<<a, b>>)[i]).pts} : i \in 1..4}

\* C17 as stated: on the grid at hand there is a rectangle whose two supplied
\* corners pass the bounds check and which has a derived corner, or a point to
\* draw, outside [0,width) x [0,height)
C17_DerivedCornerOutside ==
    \E a \in GridPoints, b \in GridPoints : \E p \in RectanglePoints(a, b) : ~InGrid(p)

\* C17 amended: when the two supplied corners of a rectangle pass the bounds
\* check, its derived corners and every point draw_rectangle draws lie in
\* [0,width) x [0,height), and all four lines are axis-aligned
C17_RectangleStaysInBounds ==
    (call.op = "draw_rectangle" /\ ~call.outside) =>
        /\ \A p \in RectanglePoints(call.a, call.b) : InGrid(p)
        /\ \A i \in 1..4 : get_points(get_lines(<<call.a, call.b>>)[i]).err = "ok"

\* a rectangle given by its top-right and bottom-left corners, drawn in full
C17_Witness ==
    /\ call.op = "draw_rectangle"
    /\ ~call.outside
    /\ call.a[1] > call.b[1]
    /\ call.a[2] < call.b[2]
    /\ call.result = "ok"
    /\ Changed(before.cells, cells) # {}

\* C20: a second bucket_fill(p, c) right after bucket_fill(p, c) leaves the
\* cell array as the first call left it
C20_FillIdempotent ==
    (call.op = "bucket_fill" /\ ~call.outside) =>
        _bucket_fill(cells, call.a, call.colour, FALSE).cells = cells

\* a fill that recoloured cells of a drawn line next to empty cells
C20_Witness ==
    /\ call.op = "bucket_fill"
    /\ ~call.outside
    /\ call.result = "ok"
    /\ GetCell(cells, call.a[1], call.a[2]) = <<LineType, call.colour>>
    /\ \E q \in GridPoints : GetCell(cells, q[1], q[2])[1] = Empty

\* C12: for a line whose endpoints share x or share y and are given in
\* ascending order of the other coordinate (from = to included), get_points()
\* is the contiguous ascending sequence from `from` to `to`, both included,
\* of length the coordinate difference plus 1
C12_GetPointsAscending ==
    (/\ geom.op = "get_points"
     /\ \/ (geom.a[1] = geom.b[1] /\ geom.a[2] <= geom.b[2])
        \/ (geom.a[2] = geom.b[2] /\ geom.a[1] <= geom.b[1])) =>
        /\ geom.err = "ok"
        /\ Len(geom.pts) = (geom.b[1] - geom.a[1]) + (geom.b[2] - geom.a[2]) + 1
        /\ geom.pts[1] = geom.a
        /\ geom.pts[Len(geom.pts)] = geom.b
        /\ \A i \in 1..(Len(geom.pts) - 1) :
               IF geom.a[1] = geom.b[1]
               THEN geom.pts[i + 1] = <<geom.pts[i][1], geom.pts[i][2] + 1>>
               ELSE geom.pts[i + 1] = <<geom.pts[i][1] + 1, geom.pts[i][2]>>

\* an ascending line of at least three points that starts at a negative
\* coordinate and varies along x
C12_Witness ==
    /\ geom.op = "get_points"
    /\ geom.a[2] = geom.b[2]
    /\ geom.a[1] < 0
    /\ geom.b[1] >= geom.a[1] + 2
    /\ Len(geom.pts) >= 3

\* C13: for corners in any relative order, get_lines() is exactly
\* top_left->top_right, top_left->bottom_left, top_right->bottom_right,
\* bottom_left->bottom_right with top_right = (bottom_right.x, top_left.y) and
\* bottom_left = (top_left.x, bottom_right.y), and every line is axis-aligned
C13_GetLinesFourBorders ==
    (geom.op = "get_lines") =>
        LET tr == <<geom.b[1], geom.a[2]>>
            bl == <<geom.a[1], geom.b[2]>>
        IN /\ geom.lines = << <<geom.a, tr>>, <<geom.a, bl>>, <<tr, geom.b>>, <<bl, geom.b>> >>
           /\ \A i \in 1..4 : \/ geom.lines[i][1][1] = geom.lines[i][2][1]
                              \/ geom.lines[i][1][2] = geom.lines[i][2][2]

\* the lines of a rectangle given by its top-right and bottom-left corners
C13_Witness ==
    /\ geom.op = "get_lines"
    /\ geom.a[1] > geom.b[1]
    /\ geom.a[2] < geom.b[2]
    /\ Len(geom.lines) = 4

\* C14: constructing a Point with a negative coordinate fails; no Point with
\* a negative x or y is ever created
C14_NoNegativePoint ==
    (geom.op = "Point" /\ geom.err = "ok") => (geom.point[1] >= 0 /\ geom.point[2] >= 0)

\* the frontier processed as a stack: append() with pop()
enqueue_stack(neighbour, processed, to_process) ==
    IF can_process_cell(neighbour, processed, to_process)
    THEN Append(to_process, neighbour)
    ELSE to_process

enqueue_neighbours_stack(p, processed, to_process) ==
    LET t1 == enqueue_stack(<<p[1] - 1, p[2]>>, processed, to_process)
        t2 == enqueue_stack(<<p[1] + 1, p[2]>>, processed, t1)
        t3 == enqueue_stack(<<p[1], p[2] - 1>>, processed, t2)
    IN enqueue_stack(<<p[1], p[2] + 1>>, processed, t3)

RECURSIVE fill_loop_stack(_, _, _, _, _, _, _)
fill_loop_stack(c, processed, to_process, painted, content_type_to_fill, colour, reset_content_type) ==
    IF to_process = <<>> THEN [cells |-> c, err |-> "ok", painted |-> painted]
    ELSE LET current_point == to_process[Len(to_process)]
             rest == SubSeq(to_process, 1, Len(to_process) - 1)
             done == processed \cup {current_point}
         IN IF ~CellExists(c, current_point[1], current_point[2])
            THEN [cells |-> c, err |-> "IndexError", painted |-> painted]
            ELSE IF GetCell(c, current_point[1], current_point[2])[1] = content_type_to_fill
                 THEN fill_loop_stack(SetCell(c, current_point[1], current_point[2],
                                              painted_cell(content_type_to_fill, colour, reset_content_type)),
                                      done, enqueue_neighbours_stack(current_point, done, rest),
                                      painted \cup {current_point},
                                      content_type_to_fill, colour, reset_content_type)
                 ELSE fill_loop_stack(c, done, rest, painted, content_type_to_fill, colour, reset_content_type)

bucket_fill_stack(c, point, colour, reset_content_type) ==
    IF ~CellExists(c, point[1], point[2])
    THEN [cells |-> c, err |-> "IndexError", painted |-> {}]
    ELSE fill_loop_stack(c, {}, <<point>>, {}, GetCell(c, point[1], point[2])[1], colour, reset_content_type)

\* C18: for every grid state, start point and colour, the flood fill of
\* bucket_fill and delete, which processes its frontier as a queue, ends with
\* the set of painted cells and the cell array that processing the frontier
\* as a stack gives
C18_FrontierOrderIrrelevant ==
    (fill.pc \in {"done", "raised"}) =>
        LET r == bucket_fill_stack(before.cells, fill.point, fill.colour, fill.reset_content_type)
        IN cells = r.cells /\ fill.painted = r.painted

\* the points of a sequence are pairwise different
NoDuplicates(q) == \A i \in DOMAIN q : \A j \in DOMAIN q : i # j => q[i] # q[j]

\* C19: the loop of _bucket_fill terminates: no point is placed on the pending
\* list twice, every point placed on it is in bounds, and the loop is left
\* only with the pending list empty
C19_FillLoopTerminates ==
    /\ NoDuplicates(fill.enqueued)
    /\ \A i \in DOMAIN fill.enqueued : InGrid(fill.enqueued[i])
    /\ (fill.pc \in {"done", "raised"}) => fill.to_process = <<>>

====
